---- MODULE Spec2Model ----
(***************************************************************************)
(* A model of TaskWatch's report engine: the report job lifecycle of       *)
(* app/api/reports.py and app/core/reporter.py (submit, asynchronous       *)
(* dispatch, worker execution, synchronous fallback, poll) and the         *)
(* availability computation of app/core/reporter.py (business intervals,   *)
(* step-function interpolation, per-window and per-store metrics).         *)
(*                                                                         *)
(* Datetimes are whole hours since an epoch that falls on a Monday 00:00;  *)
(* a timezone is a fixed offset in hours from UTC.                         *)
(***************************************************************************)
EXTENDS Integers, Sequences, FiniteSets, TLC

VARIABLES
    reports,      \* the report table: report_id -> [status, report_path]
    artifact,     \* the CSV file of each report_id: "absent", "partial", "full"
    queue,        \* the broker: report ids sent and not yet picked up
    sub,          \* trigger_report's position, per submission
    resp,         \* what trigger_report returned, per submission
    mode,         \* how the job is executed: "none", "async", "sync"
    task,         \* the worker's task, per report id
    gen,          \* the position of the generation (task or sync), per report id
    runs,         \* the executors that started a generation, per report id
    lastPoll,     \* the latest get_report call and what it returned
    fn,           \* the function of reporter.py being applied
    pc,           \* "idle", "call" (arguments bound) or "done" (returned)
    inp,          \* its arguments and the tables it reads
    out           \* its result

vars == <<reports, artifact, queue, sub, resp, mode, task, gen, runs, lastPoll,
          fn, pc, inp, out>>

jobVars == <<reports, artifact, queue, sub, resp, mode, task, gen, runs, lastPoll>>
funVars == <<fn, pc, inp, out>>

(***************************************************************************)
(* Bounds                                                                  *)
(***************************************************************************)
MaxJobs == 2

Jobs == 1..MaxJobs

(***************************************************************************)
(* The report table (app/models/db_models.py, Report)                      *)
(***************************************************************************)
\* report_path=None
Null == 0

\* Report(report_id, status='Running', report_path=None)
NewReport == [status |-> "Running", report_path |-> Null]

\* os.path.join(reports_dir, f'report_{report_id}.csv')
csv_path(j) == j

\* Report.query.filter_by(report_id=report_id).first() finds a record
Found(j) == j \in DOMAIN reports

\* a faulty variant: the commit rewrites every record of the table
AddReport_Rewrite(j) == [k \in DOMAIN reports \cup {j} |-> NewReport]

\* db.session.add(report); db.session.commit()
AddReport(j) == [k \in DOMAIN reports \cup {j} |->
                    IF k = j THEN NewReport ELSE reports[k]]

\* a faulty variant: the path is not recorded
CompleteUpdate_NoPath(rec, path) == [rec EXCEPT !.status = "Complete"]

\* report.status = 'Complete'; report.report_path = csv_path
CompleteUpdate(rec, path) == [status |-> "Complete", report_path |-> path]

\* report.status = 'Failed'
FailedUpdate(rec) == [rec EXCEPT !.status = "Failed"]

(***************************************************************************)
(* trigger_report (app/api/reports.py)                                     *)
(***************************************************************************)
\* what celery.send_task can do: enqueue the task, or raise (broker unreachable)
DispatchOutcomes == {"enqueued", "raised"}

\* the first lines of the generation: the report is looked up, and a missing
\* record raises
EnterGeneration(j) == IF Found(j) THEN "started" ELSE "raised"

\* the record is created and committed as Running
trigger_report_create(j) ==
    /\ sub[j] = "new"
    /\ reports' = AddReport(j)
    /\ sub' = [sub EXCEPT ![j] = "created"]
    /\ UNCHANGED <<funVars, artifact, queue, resp, mode, task, gen, runs, lastPoll>>

\* db.session.commit() raises: the outer handler answers 500, no record exists
trigger_report_create_fail(j) ==
    /\ sub[j] = "new"
    /\ sub' = [sub EXCEPT ![j] = "done"]
    /\ resp' = [resp EXCEPT ![j] = "error500"]
    /\ UNCHANGED <<funVars, reports, artifact, queue, mode, task, gen, runs, lastPoll>>

\* a faulty variant: the except branch of the dispatch is still ahead
SubmitAfterDispatch_StillTrying == "created"

\* where trigger_report stands once send_task has returned: past the try block,
\* at its 200 answer
SubmitAfterDispatch == "done"

\* send_task succeeds: the task is in the broker and the id is returned
trigger_report_dispatch(j) ==
    /\ sub[j] = "created"
    /\ "enqueued" \in DispatchOutcomes
    /\ queue' = queue \cup {j}
    /\ task' = [task EXCEPT ![j] = "queued"]
    /\ mode' = [mode EXCEPT ![j] = "async"]
    /\ sub' = [sub EXCEPT ![j] = SubmitAfterDispatch]
    /\ resp' = [resp EXCEPT ![j] = "report_id200"]
    /\ UNCHANGED <<funVars, reports, artifact, gen, runs, lastPoll>>

\* send_task raises: generate_report_sync is entered in the calling context
trigger_report_fallback(j) ==
    /\ sub[j] = "created"
    /\ "raised" \in DispatchOutcomes
    /\ mode' = [mode EXCEPT ![j] = "sync"]
    /\ sub' = [sub EXCEPT ![j] = "sync"]
    /\ gen' = [gen EXCEPT ![j] = EnterGeneration(j)]
    /\ runs' = [runs EXCEPT ![j] = @ \cup {"sync"}]
    /\ UNCHANGED <<funVars, reports, artifact, queue, resp, task, lastPoll>>

\* generate_report_sync returned: the 200 answer with the report id
trigger_report_return(j) ==
    /\ mode[j] = "sync" /\ sub[j] = "sync" /\ gen[j] = "complete"
    /\ sub' = [sub EXCEPT ![j] = "done"]
    /\ resp' = [resp EXCEPT ![j] = "report_id200"]
    /\ UNCHANGED <<funVars, reports, artifact, queue, mode, task, gen, runs, lastPoll>>

\* a faulty variant: the failure falls through to the 200 answer
SyncErrorResponse_FallsThrough == "report_id200"

\* what trigger_report answers when generate_report_sync raised
SyncErrorResponse == "error500"

\* generate_report_sync raised: the record is set Failed and committed (a commit
\* that raises is caught by the outer handler), and the answer is 500
trigger_report_sync_error(j) ==
    /\ mode[j] = "sync" /\ sub[j] = "sync" /\ gen[j] = "failed"
    /\ \E committed \in BOOLEAN :
         reports' = IF committed
                    THEN [reports EXCEPT ![j] = FailedUpdate(@)]
                    ELSE reports
    /\ sub' = [sub EXCEPT ![j] = "done"]
    /\ resp' = [resp EXCEPT ![j] = SyncErrorResponse]
    /\ UNCHANGED <<funVars, artifact, queue, mode, task, gen, runs, lastPoll>>

(***************************************************************************)
(* The worker (celery) and generate_report_task / generate_report_sync     *)
(* (app/core/reporter.py): both run the same stages                        *)
(***************************************************************************)
\* a worker takes the task from the broker and enters generate_report_task
worker_pickup(j) ==
    /\ j \in queue /\ task[j] = "queued"
    /\ queue' = queue \ {j}
    /\ task' = [task EXCEPT ![j] = "running"]
    /\ gen' = [gen EXCEPT ![j] = EnterGeneration(j)]
    /\ runs' = [runs EXCEPT ![j] = @ \cup {"worker"}]
    /\ UNCHANGED <<funVars, reports, artifact, sub, resp, mode, lastPoll>>

\* the generation of j is being executed, by the worker or by the fallback
Executing(j) ==
    \/ mode[j] = "async" /\ task[j] = "running"
    \/ mode[j] = "sync" /\ sub[j] = "sync"

\* the task ends when the generation returns or re-raises
TaskAfter(j) == IF mode[j] = "async" THEN [task EXCEPT ![j] = "finished"] ELSE task

\* get_current_timestamp and generate_store_metrics: either may raise
generate_compute(j) ==
    /\ Executing(j) /\ gen[j] = "started"
    /\ \E ok \in BOOLEAN :
         gen' = [gen EXCEPT ![j] = IF ok THEN "computed" ELSE "raised"]
    /\ UNCHANGED <<funVars, reports, artifact, queue, sub, resp, mode, task, runs, lastPoll>>

\* what os.makedirs and save_report_to_csv can leave on disk: the whole file,
\* a file cut short by an exception, or no file
SaveOutcomes == {"full", "partial", "absent"}

\* a faulty variant: an exception while the file is written is swallowed
SaveStage_Swallowed(r) == "saved"

\* where the generation stands after the save: save_report_to_csv returns only
\* when the header and every row of report_data are written and the file is
\* closed; an exception of os.makedirs, open or writerow leaves the try block
SaveStage(r) == IF r = "full" THEN "saved" ELSE "raised"

\* os.makedirs and save_report_to_csv
generate_save(j) ==
    /\ Executing(j) /\ gen[j] = "computed"
    /\ \E r \in SaveOutcomes :
         /\ artifact' = [artifact EXCEPT ![csv_path(j)] = r]
         /\ gen' = [gen EXCEPT ![j] = SaveStage(r)]
    /\ UNCHANGED <<funVars, reports, queue, sub, resp, mode, task, runs, lastPoll>>

\* a faulty variant: something inside the try block raises after the commit
StageAfterCommit_Raises == "raised"

\* where the generation stands once the Complete record is committed: it logs
\* and returns
StageAfterCommit == "complete"

\* status Complete and report_path are committed together; a commit that raises
\* leaves the stored record as it was, and the except branch runs
generate_commit(j) ==
    /\ Executing(j) /\ gen[j] = "saved"
    /\ \E committed \in BOOLEAN :
         IF committed
         THEN /\ reports' = [reports EXCEPT ![j] = CompleteUpdate(@, csv_path(j))]
              /\ gen' = [gen EXCEPT ![j] = StageAfterCommit]
              /\ task' = IF StageAfterCommit = "complete" THEN TaskAfter(j) ELSE task
         ELSE /\ gen' = [gen EXCEPT ![j] = "raised"]
              /\ UNCHANGED <<funVars, reports, task>>
    /\ UNCHANGED <<funVars, artifact, queue, sub, resp, mode, runs, lastPoll>>

\* the except branch: the record, if found, is set Failed and committed (an
\* exception here is logged and dropped), then the exception is re-raised
generate_except(j) ==
    /\ Executing(j) /\ gen[j] = "raised"
    /\ \E committed \in BOOLEAN :
         reports' = IF committed /\ Found(j)
                    THEN [reports EXCEPT ![j] = FailedUpdate(@)]
                    ELSE reports
    /\ gen' = [gen EXCEPT ![j] = "failed"]
    /\ task' = TaskAfter(j)
    /\ UNCHANGED <<funVars, artifact, queue, sub, resp, mode, runs, lastPoll>>

\* the worker process dies in the middle of the task
worker_crash(j) ==
    /\ mode[j] = "async" /\ task[j] = "running"
    /\ task' = [task EXCEPT ![j] = "crashed"]
    /\ UNCHANGED <<funVars, reports, artifact, queue, sub, resp, mode, gen, runs, lastPoll>>

(***************************************************************************)
(* get_report (app/api/reports.py)                                         *)
(***************************************************************************)
\* os.path.exists(report.report_path)
PathExists(path) == path # Null /\ artifact[path] # "absent"

\* a faulty variant: every known report is answered as still being generated
PollResult_AlwaysRunning(j) == IF ~Found(j) THEN "NotFound" ELSE "Running"

\* the answer of get_report for report id j
PollResult(j) ==
    IF ~Found(j) THEN "NotFound"
    ELSE IF reports[j].status = "Running" THEN "Running"
    ELSE IF reports[j].status = "Complete"
         THEN IF PathExists(reports[j].report_path) THEN "Complete" ELSE "FileMissing"
    ELSE IF reports[j].status = "Failed" THEN "Failed"
    ELSE "Unknown"

\* where the submitting call of j stands, as a poller meets it
SubmitPhase(j) ==
    IF mode[j] = "sync" /\ sub[j] = "sync" THEN "fallback"
    ELSE IF mode[j] = "sync" /\ sub[j] = "done" THEN "afterFallback"
    ELSE "other"

get_report(j) ==
    /\ lastPoll' = [job |-> j, result |-> PollResult(j), phase |-> SubmitPhase(j)]
    /\ UNCHANGED <<funVars, reports, artifact, queue, sub, resp, mode, task, gen, runs>>

(***************************************************************************)
(* The job lifecycle                                                       *)
(***************************************************************************)
NoPoll == [job |-> 0, result |-> "none", phase |-> "other"]

\* no function of the availability computation is being applied
InitFun ==
    /\ fn = "none"
    /\ pc = "idle"
    /\ inp = <<>>
    /\ out = <<>>

Init ==
    /\ reports = <<>>
    /\ artifact = [j \in Jobs |-> "absent"]
    /\ queue = {}
    /\ sub = [j \in Jobs |-> "new"]
    /\ resp = [j \in Jobs |-> "none"]
    /\ mode = [j \in Jobs |-> "none"]
    /\ task = [j \in Jobs |-> "none"]
    /\ gen = [j \in Jobs |-> "none"]
    /\ runs = [j \in Jobs |-> {}]
    /\ lastPoll = NoPoll
    /\ InitFun

Next ==
    \E j \in Jobs :
         \/ trigger_report_create(j)
         \/ trigger_report_create_fail(j)
         \/ trigger_report_dispatch(j)
         \/ trigger_report_fallback(j)
         \/ trigger_report_return(j)
         \/ trigger_report_sync_error(j)
         \/ worker_pickup(j)
         \/ generate_compute(j)
         \/ generate_save(j)
         \/ generate_commit(j)
         \/ generate_except(j)
         \/ worker_crash(j)
         \/ get_report(j)

Spec == Init /\ [][Next]_vars

\* what the scheduling guarantees: a request being served runs on (the dispatch
\* is tried, a fallback's caller gets its answer), a worker takes a task that is
\* in the broker, and an executor takes the next step of its generation.
\* Nothing makes a client submit or poll, and a crash need not happen.
Fairness ==
    \A j \in Jobs :
        /\ WF_vars(trigger_report_dispatch(j) \/ trigger_report_fallback(j))
        /\ WF_vars(trigger_report_return(j))
        /\ WF_vars(trigger_report_sync_error(j))
        /\ WF_vars(worker_pickup(j))
        /\ WF_vars(generate_compute(j))
        /\ WF_vars(generate_save(j))
        /\ WF_vars(generate_commit(j))
        /\ WF_vars(generate_except(j))

SpecFair == Init /\ [][Next]_vars /\ Fairness

(***************************************************************************)
(* Claims about the job lifecycle                                          *)
(***************************************************************************)
Status(j) == reports[j].status

\* C1: a record's status changes only from Running to Complete or from Running
\* to Failed; a Complete or Failed record keeps its status, and no record is
\* ever removed.
C1_StatusChangesOnce ==
    [][\A j \in DOMAIN reports :
          /\ j \in DOMAIN reports'
          /\ reports'[j].status # reports[j].status
                => /\ reports[j].status = "Running"
                   /\ reports'[j].status \in {"Complete", "Failed"}]_vars

\* C1 witness: one job is Complete and has been polled since; another went
\* through the fallback, failed, and was set Failed again by trigger_report.
C1_Witness ==
    \E j, k \in DOMAIN reports :
        /\ Status(j) = "Complete" /\ lastPoll.job = j /\ lastPoll.result = "Complete"
        /\ Status(k) = "Failed" /\ mode[k] = "sync" /\ sub[k] = "done"

C10_PathIffComplete ==
    \A j \in DOMAIN reports :
        (reports[j].report_path # Null) <=> (Status(j) = "Complete")

\* C10 witness: a job whose file was cut short by an exception has ended Failed
\* without a path, while another job is Complete with its path.
C10_Witness ==
    \E j, k \in DOMAIN reports :
        /\ Status(j) = "Failed" /\ artifact[csv_path(j)] = "partial"
        /\ gen[j] = "failed" /\ reports[j].report_path = Null
        /\ Status(k) = "Complete" /\ reports[k].report_path = csv_path(k)

\* C12: a record becomes Complete only in a step before and after which its
\* artifact is written in full (the header and the row of every store of
\* report_data), a Complete record's artifact stays full, and a poll that
\* answers Complete does so for a job whose artifact is full.
C12_CompleteOnlyAfterFullArtifact ==
    [][/\ \A j \in DOMAIN reports' :
            reports'[j].status = "Complete"
                => /\ artifact[csv_path(j)] = "full"
                   /\ artifact'[csv_path(j)] = "full"
       /\ lastPoll'.result = "Complete"
            => artifact'[csv_path(lastPoll'.job)] = "full"]_vars

\* C12 witness: a poll got Complete for one job while another job, whose file
\* was cut short, is still Running and in its except branch.
C12_Witness ==
    \E j, k \in DOMAIN reports :
        /\ lastPoll.job = j /\ lastPoll.result = "Complete"
        /\ artifact[csv_path(j)] = "full"
        /\ Status(k) = "Running" /\ artifact[csv_path(k)] = "partial"
        /\ gen[k] = "raised"

\* C11 as stated: every submission whose Running record was persisted returns
\* the job's report_id, dispatched or run by the fallback, generation Complete
\* or Failed; the failure shows only in a later poll.
C11_SubmitReturnsReportId ==
    \A j \in Jobs :
        (Found(j) /\ sub[j] = "done") => resp[j] = "report_id200"

\* C15: a poll of any report id, known or unknown, changes no record and
\* creates none (nor does it touch an artifact, the broker or an execution);
\* for an unknown id it answers NotFound and for a known one the stored status.
C15_PollReadOnly ==
    [][lastPoll' # lastPoll
         => /\ reports' = reports
            /\ UNCHANGED <<artifact, queue, sub, resp, mode, task, gen, runs>>
            /\ lastPoll'.job \in Jobs
            /\ lastPoll'.result = IF lastPoll'.job \in DOMAIN reports
                                  THEN reports[lastPoll'.job].status
                                  ELSE "NotFound"]_vars

\* C15 witness: a poll of an id without a record answered NotFound and left the
\* table with the one Failed record it had; the submission of that id had been
\* refused.
C15_Witness ==
    \E j, k \in Jobs :
        /\ lastPoll.job = k /\ lastPoll.result = "NotFound"
        /\ sub[k] = "done" /\ DOMAIN reports = {j}
        /\ Status(j) = "Failed" /\ reports[j].report_path = Null

\* a step changes the submission or the execution of job j
Moved(j) ==
    \/ sub'[j] # sub[j] \/ gen'[j] # gen[j] \/ task'[j] # task[j]
    \/ mode'[j] # mode[j] \/ resp'[j] # resp[j] \/ runs'[j] # runs[j]
    \/ (j \in queue') # (j \in queue)

\* a step creates, removes or changes the record of job k, or changes its file
Touched(k) ==
    \/ (k \in DOMAIN reports') # (k \in DOMAIN reports)
    \/ (k \in DOMAIN reports /\ reports'[k] # reports[k])
    \/ artifact'[csv_path(k)] # artifact[csv_path(k)]

\* job k, wherever its generation stands short of an exception or a crash, can
\* take its next step towards Complete
CanAdvance(k) ==
    /\ sub[k] = "created" => ENABLED trigger_report_dispatch(k)
    /\ (k \in queue /\ task[k] = "queued")
          => ENABLED (worker_pickup(k) /\ gen'[k] = "started")
    /\ (Executing(k) /\ gen[k] = "started")
          => ENABLED (generate_compute(k) /\ gen'[k] = "computed")
    /\ (Executing(k) /\ gen[k] = "computed")
          => ENABLED (generate_save(k) /\ gen'[k] = "saved")
    /\ (Executing(k) /\ gen[k] = "saved")
          => ENABLED (generate_commit(k) /\ reports'[k].status = "Complete")

\* C16: a step of one job (submission, generation start, stage, completion,
\* failure, crash) leaves the record, the file and the execution of every other
\* job as they were; and whatever has become of the other jobs, a job that has
\* not itself raised or crashed can take each next step up to Complete.
C16_JobsIndependent ==
    /\ [][\A j \in Jobs :
             /\ Touched(j) => Moved(j)
             /\ Moved(j) => \A k \in Jobs \ {j} : ~Touched(k) /\ ~Moved(k)]_vars
    /\ [](\A k \in Jobs : CanAdvance(k))

\* C16 witness: one job has ended Failed, by the fallback in the submitting
\* call, and the other job, dispatched to a worker, is Complete with its file.
C16_Witness ==
    \E j, k \in DOMAIN reports :
        /\ Status(j) = "Failed" /\ mode[j] = "sync" /\ resp[j] = "error500"
        /\ Status(k) = "Complete" /\ mode[k] = "async" /\ task[k] = "finished"
        /\ artifact[csv_path(k)] = "full"

\* C14 as stated: under fairness every job whose record exists eventually
\* leaves Running for Complete or Failed unless its worker crashes mid-job, and
\* a job whose worker crashed stays Running forever and is never generated
\* again.
C14_LeavesRunningUnlessCrash ==
    \A j \in Jobs :
        /\ Found(j) ~> \/ (Found(j) /\ Status(j) \in {"Complete", "Failed"})
                       \/ task[j] = "crashed"
        /\ [](task[j] = "crashed"
                => [](/\ Found(j) /\ Status(j) = "Running"
                      /\ task[j] = "crashed" /\ j \notin queue))

\* the executor the mode of job j names
ExecutorOf(m) == IF m = "sync" THEN "sync" ELSE "worker"

\* C13: the execution mode of a job, once chosen by trigger_report, never
\* changes; a generation is started for a report_id only when none was started
\* before, and by the executor of the chosen mode, so that never both the
\* worker and the fallback generate one job.
C13_OneExecutionPath ==
    [][\A j \in Jobs :
          /\ mode[j] # "none" => mode'[j] = mode[j]
          /\ runs'[j] # runs[j]
                => /\ runs[j] = {} /\ gen[j] = "none"
                   /\ runs'[j] = {ExecutorOf(mode'[j])}
          /\ (mode'[j] = "sync" => j \notin queue' /\ task'[j] = "none")
          /\ Cardinality(runs'[j]) <= 1]_vars

\* C13 witness: one job was generated by a worker and another by the fallback,
\* both to their end.
C13_Witness ==
    \E j, k \in Jobs :
        /\ runs[j] = {"worker"} /\ task[j] = "finished"
        /\ runs[k] = {"sync"} /\ sub[k] = "done"
        /\ gen[j] \in {"complete", "failed"} /\ gen[k] \in {"complete", "failed"}

(***************************************************************************)
(* interpolate_status_in_interval (app/core/reporter.py)                   *)
(*                                                                         *)
(* An observation is [timestamp_utc, status]; a datetime is a number of    *)
(* hours, and timedelta.total_seconds() turns a difference into seconds.   *)
(***************************************************************************)
SecondsPerHour == 3600

\* (a - b).total_seconds()
total_seconds(a, b) == (a - b) * SecondsPerHour

\* o is put behind every element whose timestamp is not later than its own
RECURSIVE InsertByTimestamp(_, _)
InsertByTimestamp(sorted, o) ==
    IF sorted = <<>> THEN <<o>>
    ELSE IF sorted[Len(sorted)].timestamp_utc <= o.timestamp_utc
         THEN Append(sorted, o)
         ELSE Append(InsertByTimestamp(SubSeq(sorted, 1, Len(sorted) - 1), o),
                     sorted[Len(sorted)])

\* observations.sort(key=lambda x: x.timestamp_utc): a stable sort
RECURSIVE SortByTimestamp(_)
SortByTimestamp(obs) ==
    IF obs = <<>> THEN <<>>
    ELSE InsertByTimestamp(SortByTimestamp(SubSeq(obs, 1, Len(obs) - 1)),
                           obs[Len(obs)])

\* the seconds of a span that count as uptime, given the status it is attributed to
UpSeconds(status, seconds) == IF status = "active" THEN seconds ELSE 0

\* the period before the first observation
PreFirstSeconds(sorted, start_time) ==
    IF start_time < sorted[1].timestamp_utc
    THEN UpSeconds(sorted[1].status, total_seconds(sorted[1].timestamp_utc, start_time))
    ELSE 0

\* a faulty variant: a gap is attributed to the observation that ends it
GapStatus_Next(current_obs, next_obs) == next_obs.status

\* the status a gap between two observations is attributed to
GapStatus(current_obs, next_obs) == current_obs.status

\* the periods between observations i and i+1, for i from `i` on
RECURSIVE BetweenSeconds(_, _)
BetweenSeconds(sorted, i) ==
    IF i >= Len(sorted) THEN 0
    ELSE UpSeconds(GapStatus(sorted[i], sorted[i + 1]),
                   total_seconds(sorted[i + 1].timestamp_utc, sorted[i].timestamp_utc))
         + BetweenSeconds(sorted, i + 1)

\* a faulty variant: the last status is held from the first observation on
PostLastSeconds_FromFirst(sorted, end_time) ==
    UpSeconds(sorted[Len(sorted)].status, total_seconds(end_time, sorted[1].timestamp_utc))

\* the period after the last observation
PostLastSeconds(sorted, end_time) ==
    LET last_obs == sorted[Len(sorted)] IN
    IF end_time > last_obs.timestamp_utc
    THEN UpSeconds(last_obs.status, total_seconds(end_time, last_obs.timestamp_utc))
    ELSE 0

\* a faulty variant: the downtime is what the interval lasts
downtime_seconds_Total(total, uptime_seconds) == total

\* downtime_seconds = total_seconds - uptime_seconds
downtime_seconds(total, uptime_seconds) == total - uptime_seconds

\* the pair (uptime_seconds, downtime_seconds)
interpolate_status_in_interval(observations, start_time, end_time) ==
    IF observations = <<>> THEN <<0, 0>>
    ELSE LET total == total_seconds(end_time, start_time)
             sorted == SortByTimestamp(observations)
             uptime_seconds == PreFirstSeconds(sorted, start_time)
                               + BetweenSeconds(sorted, 1)
                               + PostLastSeconds(sorted, end_time)
         IN  <<uptime_seconds, downtime_seconds(total, uptime_seconds)>>

(***************************************************************************)
(* The interpolation applied to bounded inputs                             *)
(***************************************************************************)
MaxObs == 3

\* the hours an interval bound or an observation can fall on
InterpHours == {9, 11, 13, 17}

Statuses == {"active", "inactive"}

Observations == [timestamp_utc : InterpHours, status : Statuses]

SeqsUpTo(S, n) == UNION {[1..k -> S] : k \in 0..n}

\* the job lifecycle at rest
InitJobs ==
    /\ reports = <<>>
    /\ artifact = [j \in Jobs |-> "absent"]
    /\ queue = {}
    /\ sub = [j \in Jobs |-> "new"]
    /\ resp = [j \in Jobs |-> "none"]
    /\ mode = [j \in Jobs |-> "none"]
    /\ task = [j \in Jobs |-> "none"]
    /\ gen = [j \in Jobs |-> "none"]
    /\ runs = [j \in Jobs |-> {}]
    /\ lastPoll = NoPoll

InitInterp ==
    /\ InitJobs
    /\ fn = "interpolate_status_in_interval"
    /\ pc = "call"
    /\ inp \in [observations : SeqsUpTo(Observations, MaxObs),
                start_time : InterpHours,
                end_time : InterpHours]
    /\ inp.start_time <= inp.end_time
    /\ out = <<>>

interpolate_call ==
    /\ fn = "interpolate_status_in_interval" /\ pc = "call"
    /\ out' = interpolate_status_in_interval(inp.observations, inp.start_time,
                                             inp.end_time)
    /\ pc' = "done"
    /\ UNCHANGED <<jobVars, fn, inp>>

NextInterp == interpolate_call

SpecInterp == InitInterp /\ [][NextInterp]_vars

InterpDone == fn = "interpolate_status_in_interval" /\ pc = "done"

\* C2 as stated: for any interval and any observations, the empty list among
\* them, uptime_seconds + downtime_seconds is the interval's length in seconds.
C2_SumIsInterval ==
    InterpDone => out[1] + out[2] = total_seconds(inp.end_time, inp.start_time)

\* C2 amended: for any interval and any non-empty list of observations,
\* uptime_seconds + downtime_seconds is the interval's length in seconds; for
\* the empty list the result is (0, 0).
C2_SumIsIntervalNonEmpty ==
    InterpDone =>
        IF inp.observations = <<>>
        THEN out = <<0, 0>>
        ELSE out[1] + out[2] = total_seconds(inp.end_time, inp.start_time)

\* C2 witness: observations before, in and after a non-empty interval.
C2_Witness ==
    /\ InterpDone
    /\ inp.start_time < inp.end_time
    /\ \E i, k \in DOMAIN inp.observations :
          /\ inp.observations[i].timestamp_utc < inp.start_time
          /\ inp.observations[k].timestamp_utc > inp.end_time
    /\ out[1] # 0

\* the observation that holds at hour h: the latest one not after h (of several
\* at one timestamp, the one supplied last), and before the first observation
\* the earliest one (of several, the one supplied first)
Holder(obs, h) ==
    LET past == {i \in DOMAIN obs : obs[i].timestamp_utc <= h} IN
    IF past # {}
    THEN CHOOSE i \in past :
            \A k \in past : \/ obs[k].timestamp_utc < obs[i].timestamp_utc
                            \/ (obs[k].timestamp_utc = obs[i].timestamp_utc /\ k <= i)
    ELSE CHOOSE i \in DOMAIN obs :
            \A k \in DOMAIN obs : \/ obs[k].timestamp_utc > obs[i].timestamp_utc
                                  \/ (obs[k].timestamp_utc = obs[i].timestamp_utc /\ k >= i)

\* the step function: the seconds of the hours of [start, end) at which the
\* holding observation is active
StepUptime(obs, start_time, end_time) ==
    SecondsPerHour *
        Cardinality({h \in start_time..(end_time - 1) :
                        obs[Holder(obs, h)].status = "active"})

InInterval(obs, start_time, end_time) ==
    \A i \in DOMAIN obs :
        start_time <= obs[i].timestamp_utc /\ obs[i].timestamp_utc <= end_time

\* C9: for a non-empty list of observations inside [start, end] the uptime is
\* that of the step function; a single active observation at start gives the
\* whole interval, and active at 09:00, inactive at 13:00 in 09:00-17:00 gives
\* 4 h up and 4 h down.
C9_StepFunction ==
    InterpDone =>
        /\ (inp.observations # <<>>
            /\ InInterval(inp.observations, inp.start_time, inp.end_time))
              => out[1] = StepUptime(inp.observations, inp.start_time, inp.end_time)
        /\ (inp.observations = <<[timestamp_utc |-> inp.start_time, status |-> "active"]>>)
              => out[1] = total_seconds(inp.end_time, inp.start_time)
        /\ (/\ inp.observations = <<[timestamp_utc |-> 9, status |-> "active"],
                                    [timestamp_utc |-> 13, status |-> "inactive"]>>
            /\ inp.start_time = 9 /\ inp.end_time = 17)
              => out = <<4 * SecondsPerHour, 4 * SecondsPerHour>>

\* C9 witness: three observations inside the interval, given out of order, with
\* a gap before the first and after the last, some up and some down.
C9_Witness ==
    /\ InterpDone
    /\ Len(inp.observations) = 3
    /\ InInterval(inp.observations, inp.start_time, inp.end_time)
    /\ inp.observations[1].timestamp_utc > inp.observations[2].timestamp_utc
    /\ \A i \in 1..3 : /\ inp.start_time < inp.observations[i].timestamp_utc
                       /\ inp.observations[i].timestamp_utc < inp.end_time
    /\ out[1] > 0 /\ out[2] > 0

\* C24: called with observations whose timestamps all lie in [start, end], the
\* empty list among them, the interpolation returns 0 <= uptime_seconds <=
\* end - start and downtime_seconds >= 0.
C24_NonNegative ==
    (InterpDone /\ InInterval(inp.observations, inp.start_time, inp.end_time)) =>
        /\ 0 <= out[1]
        /\ out[1] <= total_seconds(inp.end_time, inp.start_time)
        /\ out[2] >= 0

\* C24 witness: three active observations inside the interval, the latest
\* supplied first and one of them at the end of the interval: the uptime is
\* the whole interval and the downtime 0.
C24_Witness ==
    /\ InterpDone
    /\ InInterval(inp.observations, inp.start_time, inp.end_time)
    /\ Len(inp.observations) = 3
    /\ inp.observations[1].timestamp_utc = inp.end_time
    /\ inp.observations[2].timestamp_utc < inp.observations[3].timestamp_utc
    /\ inp.start_time < inp.observations[2].timestamp_utc
    /\ out = <<total_seconds(inp.end_time, inp.start_time), 0>>
    /\ out[1] > 0

\* the lists that hold the same observations as obs, in every order
Reorderings(obs) ==
    {[i \in DOMAIN obs |-> obs[f[i]]] :
        f \in {g \in [DOMAIN obs -> DOMAIN obs] :
                  \A a, b \in DOMAIN obs : a # b => g[a] # g[b]}}

\* C19 as stated: every permutation of the supplied observations, two
\* observations at one timestamp included, gives the same (uptime_seconds,
\* downtime_seconds).
C19_OrderIndependent ==
    InterpDone =>
        \A p \in Reorderings(inp.observations) :
            interpolate_status_in_interval(p, inp.start_time, inp.end_time) = out

(***************************************************************************)
(* get_business_intervals (app/core/reporter.py)                           *)
(*                                                                         *)
(* A row of business_hours is [store_id, dayOfWeek, start_time_local,      *)
(* end_time_local], the times in hours of the day. An aware local datetime *)
(* is its wall-clock hour count in the store's timezone; hour 0 is a       *)
(* Monday 00:00.                                                           *)
(***************************************************************************)
HoursPerDay == 24

DaysPerWeek == 7

Max(a, b) == IF a >= b THEN a ELSE b

\* a faulty variant: the end of a window is not clipped to the range
Min_Unclipped(a, b) == a

Min(a, b) == IF a <= b THEN a ELSE b

\* a faulty variant: the UTC clock reading is relabelled as local time
to_local_Relabel(utc, local_tz) == utc

\* utc.replace(tzinfo=pytz.UTC).astimezone(local_tz)
to_local(utc, local_tz) == utc + local_tz

\* local.astimezone(pytz.UTC).replace(tzinfo=None)
to_utc(local, local_tz) == local - local_tz

\* local.date()
date(local) == local \div HoursPerDay

\* current_day.weekday(): 0 = Monday, 6 = Sunday
weekday(day) == day % DaysPerWeek

\* local_tz.localize(datetime.combine(current_day, time_local))
localize(current_day, time_local) == current_day * HoursPerDay + time_local

\* the rows of the store
StoreHours(hours_table, store_id) ==
    SelectSeq(hours_table, LAMBDA bh : bh.store_id = store_id)

\* a faulty variant: a rule that ends before it starts is not carried into the next day
business_end_SameDay(current_day, hours) ==
    localize(current_day, hours.end_time_local)

\* the end of a rule's window on current_day, a day later for an overnight rule
business_end(current_day, hours) ==
    IF hours.end_time_local < hours.start_time_local
    THEN localize(current_day, hours.end_time_local) + HoursPerDay
    ELSE localize(current_day, hours.end_time_local)

\* a faulty variant: a span of no length is kept
emits_OrEqual(interval_start, interval_end) == interval_start <= interval_end

\* if interval_start < interval_end: the clipped span is appended
emits(interval_start, interval_end) == interval_start < interval_end

\* the body of the loop over day_hours, from rule i on
RECURSIVE DayIntervals(_, _, _, _, _)
DayIntervals(day_hours, i, current_day, start_local, end_local) ==
    IF i > Len(day_hours) THEN <<>>
    ELSE LET business_start == localize(current_day, day_hours[i].start_time_local)
             interval_start == Max(business_start, start_local)
             interval_end == Min(business_end(current_day, day_hours[i]), end_local)
             rest == DayIntervals(day_hours, i + 1, current_day, start_local, end_local)
         IN  IF emits(interval_start, interval_end)
             THEN <<(<<interval_start, interval_end>>)>> \o rest
             ELSE rest

\* the loop over the days from current_day to end_day
RECURSIVE DaysIntervals(_, _, _, _, _)
DaysIntervals(business_hours, current_day, end_day, start_local, end_local) ==
    IF current_day > end_day THEN <<>>
    ELSE LET day_of_week == weekday(current_day)
             day_hours == SelectSeq(business_hours,
                                    LAMBDA bh : bh.dayOfWeek = day_of_week)
         IN  DayIntervals(day_hours, 1, current_day, start_local, end_local)
             \o DaysIntervals(business_hours, current_day + 1, end_day,
                              start_local, end_local)

\* the list of (interval_start, interval_end), in local time
get_business_intervals(hours_table, store_id, start_time, end_time, local_tz) ==
    LET business_hours == StoreHours(hours_table, store_id)
        start_local == to_local(start_time, local_tz)
        end_local == to_local(end_time, local_tz)
    IN  IF business_hours = <<>>
        THEN <<(<<start_local, end_local>>)>>
        ELSE DaysIntervals(business_hours, date(start_local), date(end_local),
                           start_local, end_local)

(***************************************************************************)
(* The interval builder applied to bounded inputs                          *)
(***************************************************************************)
MaxRules == 2

\* the store whose intervals are asked for, and another store of the table
Stores == {1, 2}

\* Friday and Saturday
RuleDays == {4, 5}

\* (start_time_local, end_time_local): 09:00-17:00, 22:00-06:00, 06:00-06:00
RuleTimes == {<<9, 17>>, <<22, 6>>, <<6, 6>>}

RuleRows == {[store_id |-> s, dayOfWeek |-> d,
              start_time_local |-> w[1], end_time_local |-> w[2]] :
                s \in Stores, d \in RuleDays, w \in RuleTimes}

\* range bounds in UTC: Fri 12:00, Sat 02:00, Sat 08:00, Sat 14:00, Sun 00:00
\* and the Friday 12:00 of the week after
RangeHours == {108, 122, 128, 134, 144, 276}

\* America/Chicago in winter, and UTC
Timezones == {-6, 0}

InitIntervals ==
    /\ InitJobs
    /\ fn = "get_business_intervals"
    /\ pc = "call"
    /\ inp \in [business_hours : SeqsUpTo(RuleRows, MaxRules),
                store_id : {1},
                start_time : RangeHours,
                end_time : RangeHours,
                local_tz : Timezones]
    /\ inp.start_time < inp.end_time
    /\ out = <<>>

intervals_call ==
    /\ fn = "get_business_intervals" /\ pc = "call"
    /\ out' = get_business_intervals(inp.business_hours, inp.store_id,
                                     inp.start_time, inp.end_time, inp.local_tz)
    /\ pc' = "done"
    /\ UNCHANGED <<jobVars, fn, inp>>

NextIntervals == intervals_call

SpecIntervals == InitIntervals /\ [][NextIntervals]_vars

IntervalsDone == fn = "get_business_intervals" /\ pc = "done"

\* the store's rules, and the requested range in local time
OwnRules == StoreHours(inp.business_hours, inp.store_id)

RangeStartLocal == inp.start_time + inp.local_tz

RangeEndLocal == inp.end_time + inp.local_tz

\* rule r's window is open during the local hour h: on its weekday between its
\* times, or for an overnight rule from its start on its weekday until its end
\* on the following day
RuleOpenAt(r, h) ==
    LET day == h \div HoursPerDay
        t == h % HoursPerDay
    IN  IF r.end_time_local < r.start_time_local
        THEN \/ (day % DaysPerWeek = r.dayOfWeek /\ t >= r.start_time_local)
             \/ ((day - 1) % DaysPerWeek = r.dayOfWeek /\ t < r.end_time_local)
        ELSE /\ day % DaysPerWeek = r.dayOfWeek
             /\ r.start_time_local <= t /\ t < r.end_time_local

OpenAt(h) == \E i \in DOMAIN OwnRules : RuleOpenAt(OwnRules[i], h)

CoveredAt(h) == \E i \in DOMAIN out : out[i][1] <= h /\ h < out[i][2]

\* C5 as stated: with at least one rule, the emitted intervals cover exactly the
\* business time of the range: an hour of the range lies in an emitted interval
\* if and only if some rule's window is open during it.
C5_CoversBusinessTime ==
    (IntervalsDone /\ OwnRules # <<>>) =>
        \A h \in RangeStartLocal..(RangeEndLocal - 1) : OpenAt(h) <=> CoveredAt(h)

\* C6: with no rule for the store, exactly one interval is returned, and its
\* start and end are the instants of the requested range.
C6_NoRulesWholeRange ==
    (IntervalsDone /\ OwnRules = <<>>) =>
        /\ Len(out) = 1
        /\ out[1][1] - inp.local_tz = inp.start_time
        /\ out[1][2] - inp.local_tz = inp.end_time

\* C6 witness: the store has no rule, the table holds another store's rule, and
\* the timezone is not UTC.
C6_Witness ==
    /\ IntervalsDone
    /\ OwnRules = <<>> /\ inp.business_hours # <<>>
    /\ inp.local_tz # 0

\* the number of rows of the store equal to r
Occurrences(r) == Cardinality({i \in DOMAIN OwnRules : OwnRules[i] = r})

\* an overnight rule, and a day of its weekday whose whole window is in the range
WholeOvernight(r, day) ==
    /\ r.end_time_local < r.start_time_local
    /\ day % DaysPerWeek = r.dayOfWeek
    /\ RangeStartLocal <= day * HoursPerDay + r.start_time_local
    /\ (day + 1) * HoursPerDay + r.end_time_local <= RangeEndLocal

OvernightInterval(r, day) ==
    <<day * HoursPerDay + r.start_time_local,
      (day + 1) * HoursPerDay + r.end_time_local>>

RangeDays == (RangeStartLocal \div HoursPerDay)..(RangeEndLocal \div HoursPerDay)

ClippedStart(i, d) ==
    Max(d * HoursPerDay + OwnRules[i].start_time_local, RangeStartLocal)

ClippedEnd(i, d) ==
    LET r == OwnRules[i]
        over == IF r.end_time_local < r.start_time_local THEN HoursPerDay ELSE 0
    IN  Min(d * HoursPerDay + r.end_time_local + over, RangeEndLocal)

\* the occurrences of the store's rules on the days of the range: (row, day)
RuleOccurrences ==
    {o \in (DOMAIN OwnRules) \X RangeDays :
        o[2] % DaysPerWeek = OwnRules[o[1]].dayOfWeek}

\* C18: for a store with rules every emitted interval has range_start <=
\* interval_start < interval_end <= range_end; exactly the rule occurrences
\* whose clipped span is not empty emit an interval (their clipped span), and a
\* rule with start_local equal to end_local emits none.
C18_IntervalsInsideRange ==
    (IntervalsDone /\ OwnRules # <<>>) =>
        /\ \A k \in DOMAIN out :
              /\ RangeStartLocal <= out[k][1]
              /\ out[k][1] < out[k][2]
              /\ out[k][2] <= RangeEndLocal
              /\ \E o \in RuleOccurrences :
                    /\ out[k] = <<ClippedStart(o[1], o[2]), ClippedEnd(o[1], o[2])>>
                    /\ OwnRules[o[1]].start_time_local # OwnRules[o[1]].end_time_local
        /\ Len(out) = Cardinality({o \in RuleOccurrences :
                                     ClippedStart(o[1], o[2]) < ClippedEnd(o[1], o[2])})

\* C18 witness: a rule with start_local equal to end_local has its day in the
\* range, a second rule's window begins before the range and is clipped to its
\* start, and that is the one interval emitted.
C18_Witness ==
    /\ IntervalsDone
    /\ Len(out) = 1 /\ out[1][1] = RangeStartLocal
    /\ \E o, q \in RuleOccurrences :
          /\ OwnRules[o[1]].start_time_local = OwnRules[o[1]].end_time_local
          /\ o[2] * HoursPerDay + OwnRules[o[1]].start_time_local > RangeStartLocal
          /\ o[2] * HoursPerDay + OwnRules[o[1]].start_time_local < RangeEndLocal
          /\ q[2] * HoursPerDay + OwnRules[q[1]].start_time_local < RangeStartLocal
          /\ ClippedStart(q[1], q[2]) < ClippedEnd(q[1], q[2])

(***************************************************************************)
(* calculate_period_metrics, calculate_store_metrics, get_store_timezone   *)
(* (app/core/reporter.py)                                                  *)
(*                                                                         *)
(* The tables are sequences of rows: store_status rows are [store_id,      *)
(* timestamp_utc, status], timezone rows are [store_id, timezone_str].     *)
(* A value in minutes or hours is kept as [seconds, per]: seconds / per.   *)
(***************************************************************************)
\* timedelta(hours=1), timedelta(days=1), timedelta(weeks=1), in hours
HourWindow == 1

DayWindow == 24

WeekWindow == 168

\* a faulty variant: every unit is converted as hours
SecondsPerUnit_Hours(unit) == 3600

\* the divisors of the unit conversion: 60.0 for 'minutes', 3600.0 for 'hours'
SecondsPerUnit(unit) == IF unit = "minutes" THEN 60 ELSE 3600

\* the timezones pytz knows, as offsets from UTC in hours
KnownTimezones == {"America/Chicago", "UTC"}

\* pytz.timezone(timezone_str), for a known name
pytz_timezone(timezone_str) == IF timezone_str = "America/Chicago" THEN -6 ELSE 0

\* the timezone name of the store, America/Chicago when it has no row
get_store_timezone(tz_table, store_id) ==
    LET rows == SelectSeq(tz_table, LAMBDA r : r.store_id = store_id) IN
    IF rows # <<>> THEN rows[1].timezone_str ELSE "America/Chicago"

\* the observations with start_time <= timestamp_utc <= end_time
ObservationsWithin(observations, start_time, end_time) ==
    SelectSeq(observations,
              LAMBDA obs : start_time <= obs.timestamp_utc
                           /\ obs.timestamp_utc <= end_time)

\* a faulty variant: every observation of the period is given to each interval
interval_observations_All(period_observations, interval_start_utc, interval_end_utc) == period_observations

\* interval_obs: the observations of the period within the business interval
interval_observations(period_observations, interval_start_utc, interval_end_utc) == ObservationsWithin(period_observations, interval_start_utc, interval_end_utc)

\* the loop over the business intervals, from interval i on: the summed
\* (uptime, downtime) in seconds
RECURSIVE SumIntervals(_, _, _, _)
SumIntervals(business_intervals, i, period_observations, local_tz) ==
    IF i > Len(business_intervals) THEN <<0, 0>>
    ELSE LET interval_start_utc == to_utc(business_intervals[i][1], local_tz)
             interval_end_utc == to_utc(business_intervals[i][2], local_tz)
             interval_obs == interval_observations(period_observations,
                                                   interval_start_utc, interval_end_utc)
             one == interpolate_status_in_interval(interval_obs, interval_start_utc,
                                                   interval_end_utc)
             rest == SumIntervals(business_intervals, i + 1, period_observations,
                                  local_tz)
         IN  <<one[1] + rest[1], one[2] + rest[2]>>

\* a faulty variant: a period without observations counts its business time as downtime
NoObservationsMetrics_Closed(hours_table, store_id, start_time, end_time, local_tz) ==
    LET business_intervals == get_business_intervals(hours_table, store_id,
                                                     start_time, end_time, local_tz)
        Length[i \in 0..Len(business_intervals)] ==
            IF i = 0 THEN 0
            ELSE Length[i - 1] + total_seconds(business_intervals[i][2],
                                               business_intervals[i][1])
    IN  [uptime |-> 0, downtime |-> Length[Len(business_intervals)], per |-> 1]

\* "If no observations, assume store was closed": return 0.0, 0.0
NoObservationsMetrics(hours_table, store_id, start_time, end_time, local_tz) ==
    [uptime |-> 0, downtime |-> 0, per |-> 1]

\* the pair (total_uptime, total_downtime) in the requested unit
calculate_period_metrics(hours_table, store_id, observations, start_time, end_time, local_tz, unit) ==
    LET period_observations == ObservationsWithin(observations, start_time, end_time)
    IN  IF period_observations = <<>>
        THEN NoObservationsMetrics(hours_table, store_id, start_time, end_time, local_tz)
        ELSE LET business_intervals ==
                     get_business_intervals(hours_table, store_id, start_time,
                                            end_time, local_tz)
                 total == SumIntervals(business_intervals, 1, period_observations,
                                       local_tz)
             IN  [uptime |-> total[1], downtime |-> total[2],
                  per |-> SecondsPerUnit(unit)]

\* round(seconds / per, 2), in hundredths
round2(seconds, per) == (200 * seconds + per) \div (2 * per)

\* the store's observations of the last week, in timestamp order
status_observations(status_table, store_id, current_time) ==
    SortByTimestamp(
        SelectSeq(status_table,
                  LAMBDA obs : /\ obs.store_id = store_id
                               /\ obs.timestamp_utc >= current_time - WeekWindow
                               /\ obs.timestamp_utc <= current_time))

\* the three calls of calculate_period_metrics: last hour, last day, last week
period_metrics(tables, store_id, current_time) ==
    LET local_tz == pytz_timezone(get_store_timezone(tables.timezone, store_id))
        observations == status_observations(tables.store_status, store_id, current_time)
    IN  <<calculate_period_metrics(tables.business_hours, store_id, observations,
                                   current_time - HourWindow, current_time,
                                   local_tz, "minutes"),
          calculate_period_metrics(tables.business_hours, store_id, observations,
                                   current_time - DayWindow, current_time,
                                   local_tz, "hours"),
          calculate_period_metrics(tables.business_hours, store_id, observations,
                                   current_time - WeekWindow, current_time,
                                   local_tz, "hours")>>

\* pytz.timezone raises UnknownTimeZoneError for a name it does not know
calculate_store_metrics_raises(tables, store_id) ==
    get_store_timezone(tables.timezone, store_id) \notin KnownTimezones

\* the record of the store, its six values rounded to two places
calculate_store_metrics(tables, store_id, current_time) ==
    LET p == period_metrics(tables, store_id, current_time) IN
    [store_id |-> store_id,
     uptime_last_hour |-> round2(p[1].uptime, p[1].per),
     uptime_last_day |-> round2(p[2].uptime, p[2].per),
     uptime_last_week |-> round2(p[3].uptime, p[3].per),
     downtime_last_hour |-> round2(p[1].downtime, p[1].per),
     downtime_last_day |-> round2(p[2].downtime, p[2].per),
     downtime_last_week |-> round2(p[3].downtime, p[3].per)]

(***************************************************************************)
(* calculate_store_metrics applied to one store's bounded data             *)
(***************************************************************************)
MaxStoreObs == 2

\* observation hours: more than a week before Saturday 03:00, then Thursday
\* 21:00, Friday 23:00, Saturday 02:00 and Saturday 03:00 (UTC)
StoreObsHours == {91, 261, 287, 290, 291}

\* the latest timestamp of the data: Saturday 03:00 or Saturday 06:00 (UTC)
CurrentTimes == {291, 294}

StatusRows(stores, hours) ==
    [store_id : stores, timestamp_utc : hours, status : Statuses]

Rule(s, d, from, to) ==
    [store_id |-> s, dayOfWeek |-> d, start_time_local |-> from, end_time_local |-> to]

\* schedules: none (24/7), Friday overnight, Friday by day, Saturday early with
\* a rule of another store, Friday by day and overnight, and two Friday rules
\* that overlap from 13:00 to 23:00
StoreSchedules ==
    {<<>>,
     <<Rule(1, 4, 22, 6)>>,
     <<Rule(1, 4, 9, 17)>>,
     <<Rule(2, 5, 9, 17), Rule(1, 5, 0, 6)>>,
     <<Rule(1, 4, 9, 17), Rule(1, 4, 22, 6)>>,
     <<Rule(1, 4, 9, 23), Rule(1, 4, 13, 23)>>}

TimezoneTables == {<<>>, <<[store_id |-> 1, timezone_str |-> "UTC"]>>}

InitStore ==
    /\ InitJobs
    /\ fn = "calculate_store_metrics"
    /\ pc = "call"
    /\ inp \in [tables : [store_status : SeqsUpTo(StatusRows({1}, StoreObsHours),
                                                 MaxStoreObs) \ {<<>>},
                          business_hours : StoreSchedules,
                          timezone : TimezoneTables],
                store_id : {1},
                current_time : CurrentTimes]
    /\ out = <<>>

store_metrics_call ==
    /\ fn = "calculate_store_metrics" /\ pc = "call"
    /\ out' = [periods |-> period_metrics(inp.tables, inp.store_id, inp.current_time),
               metrics |-> calculate_store_metrics(inp.tables, inp.store_id,
                                                   inp.current_time)]
    /\ pc' = "done"
    /\ UNCHANGED <<jobVars, fn, inp>>

NextStore == store_metrics_call

SpecStore == InitStore /\ [][NextStore]_vars

StoreDone == fn = "calculate_store_metrics" /\ pc = "done"

\* the three trailing windows, in hours
Windows == <<HourWindow, DayWindow, WeekWindow>>

\* the store has an observation inside the window, bounds included
ObservedIn(w) ==
    \E i \in DOMAIN inp.tables.store_status :
        LET obs == inp.tables.store_status[i] IN
        /\ obs.store_id = inp.store_id
        /\ inp.current_time - Windows[w] <= obs.timestamp_utc
        /\ obs.timestamp_utc <= inp.current_time

\* the rounded (uptime, downtime) of window w in the store's record
Rounded(w) ==
    IF w = 1 THEN <<out.metrics.uptime_last_hour, out.metrics.downtime_last_hour>>
    ELSE IF w = 2 THEN <<out.metrics.uptime_last_day, out.metrics.downtime_last_day>>
    ELSE <<out.metrics.uptime_last_week, out.metrics.downtime_last_week>>

\* the local hours of window w covered by a business interval of the store
BusinessHoursIn(w) ==
    LET tz == pytz_timezone(get_store_timezone(inp.tables.timezone, inp.store_id))
        intervals == get_business_intervals(inp.tables.business_hours, inp.store_id,
                                            inp.current_time - Windows[w],
                                            inp.current_time, tz)
    IN  {h \in (inp.current_time - Windows[w] + tz)..(inp.current_time + tz - 1) :
            \E i \in DOMAIN intervals : intervals[i][1] <= h /\ h < intervals[i][2]}

\* C8: a window without any observation of the store gets uptime 0 and downtime
\* 0 from calculate_period_metrics, and 0 and 0 in the store's record, whatever
\* the schedule.
C8_NoObservationsZero ==
    StoreDone =>
        \A w \in 1..3 :
            ~ObservedIn(w) =>
                /\ out.periods[w].uptime = 0 /\ out.periods[w].downtime = 0
                /\ Rounded(w) = <<0, 0>>

\* C8 witness: nothing observed in the last hour although the store has rules and
\* business time in that hour, while the last day has observations and a
\* non-zero result.
C8_Witness ==
    /\ StoreDone
    /\ ~ObservedIn(1) /\ ObservedIn(2)
    /\ StoreHours(inp.tables.business_hours, inp.store_id) # <<>>
    /\ BusinessHoursIn(1) # {}
    /\ out.periods[2].uptime > 0 /\ out.periods[2].downtime > 0

\* the store's observations with now - window <= timestamp_utc <= now, in
\* timestamp order
WindowObservations(w) ==
    SortByTimestamp(
        SelectSeq(inp.tables.store_status,
                  LAMBDA obs : /\ obs.store_id = inp.store_id
                               /\ inp.current_time - Windows[w] <= obs.timestamp_utc
                               /\ obs.timestamp_utc <= inp.current_time))

\* the (uptime, downtime) seconds summed over the business intervals of window
\* w, from the observations of that window alone
WindowSeconds(w) ==
    LET tz == pytz_timezone(get_store_timezone(inp.tables.timezone, inp.store_id))
        intervals == get_business_intervals(inp.tables.business_hours, inp.store_id,
                                            inp.current_time - Windows[w],
                                            inp.current_time, tz)
    IN  IF WindowObservations(w) = <<>> THEN <<0, 0>>
        ELSE SumIntervals(intervals, 1, WindowObservations(w), tz)

\* seconds in a minute for the last hour, seconds in an hour for day and week
UnitSeconds(w) == IF w = 1 THEN 60 ELSE 3600

\* C20: the pair of each window [now - 1h, now], [now - 1d, now], [now - 1w,
\* now] is computed from the observations inside that window alone, and is the
\* summed interval seconds divided by 60 for the last hour and by 3600 for the
\* last day and the last week; the record holds these values (in hundredths).
C20_WindowsAndUnits ==
    StoreDone =>
        \A w \in 1..3 :
            /\ out.periods[w].uptime = WindowSeconds(w)[1]
            /\ out.periods[w].downtime = WindowSeconds(w)[2]
            /\ ObservedIn(w) => out.periods[w].per = UnitSeconds(w)
            /\ Rounded(w)[1] * UnitSeconds(w) = 100 * WindowSeconds(w)[1]
            /\ Rounded(w)[2] * UnitSeconds(w) = 100 * WindowSeconds(w)[2]

\* C20 witness: the store was seen active in the last hour and inactive earlier
\* in the last day: 60 minutes up in the last hour, and downtime in hours for
\* the last day.
C20_Witness ==
    /\ StoreDone
    /\ Rounded(1) = <<6000, 0>>
    /\ Rounded(2)[2] >= 2000
    /\ Len(WindowObservations(2)) > Len(WindowObservations(1))

\* the store's timezone, and the business intervals of window w in UTC
StoreTz == pytz_timezone(get_store_timezone(inp.tables.timezone, inp.store_id))

WindowIntervals(w) ==
    LET intervals == get_business_intervals(inp.tables.business_hours, inp.store_id,
                                            inp.current_time - Windows[w],
                                            inp.current_time, StoreTz)
    IN  [i \in DOMAIN intervals |->
            <<to_utc(intervals[i][1], StoreTz), to_utc(intervals[i][2], StoreTz)>>]

\* the observation lies inside some business interval of window w
InsideBusiness(obs, w) ==
    \E i \in DOMAIN WindowIntervals(w) :
        /\ WindowIntervals(w)[i][1] <= obs.timestamp_utc
        /\ obs.timestamp_utc <= WindowIntervals(w)[i][2]

\* the table without the observations outside every business interval of w
InsideOnly(table, w) == SelectSeq(table, LAMBDA obs : InsideBusiness(obs, w))

\* what calculate_period_metrics returns for window w over the table
WindowMetrics(table, w) ==
    calculate_period_metrics(inp.tables.business_hours, inp.store_id,
                             status_observations(table, inp.store_id, inp.current_time),
                             inp.current_time - Windows[w], inp.current_time,
                             StoreTz, IF w = 1 THEN "minutes" ELSE "hours")

\* two results are the same values: the same seconds divided by the same
\* number, or both 0 and 0
SameValues(a, b) ==
    /\ a.uptime = b.uptime /\ a.downtime = b.downtime
    /\ (a.uptime # 0 \/ a.downtime # 0) => a.per = b.per

\* C22: the result of a window is the result over the observations inside its
\* business intervals alone; hence two tables of the store that hold the same
\* observations inside the business intervals, and differ only outside all of
\* them, get the same (uptime, downtime).
C22_OnlyInsideObservations ==
    StoreDone =>
        \A w \in 1..3 :
            /\ SameValues(out.periods[w], WindowMetrics(inp.tables.store_status, w))
            /\ SameValues(out.periods[w],
                          WindowMetrics(InsideOnly(inp.tables.store_status, w), w))

\* C22 witness: the store has rules; in the last day one observation lies in a
\* business interval and another outside all of them, and the result is not
\* zero.
C22_Witness ==
    /\ StoreDone
    /\ StoreHours(inp.tables.business_hours, inp.store_id) # <<>>
    /\ LET table == inp.tables.store_status IN
       /\ InsideOnly(table, 2) # <<>>
       /\ \E i \in DOMAIN table :
             /\ inp.current_time - DayWindow <= table[i].timestamp_utc
             /\ table[i].timestamp_utc <= inp.current_time
             /\ ~InsideBusiness(table[i], 2)
    /\ out.periods[2].uptime + out.periods[2].downtime > 0

\* the rules of the store, and whether no two of its rows are open at one hour
\* of the week
StoreRulesOf == StoreHours(inp.tables.business_hours, inp.store_id)

NonOverlappingRules ==
    \A i, k \in DOMAIN StoreRulesOf :
        i # k => \A h \in 0..(DaysPerWeek * HoursPerDay - 1) :
                    ~(RuleOpenAt(StoreRulesOf[i], h) /\ RuleOpenAt(StoreRulesOf[k], h))

\* business interval i of window w contains an observation of the store
HoldsObservation(w, i) ==
    \E n \in DOMAIN inp.tables.store_status :
        LET obs == inp.tables.store_status[n] IN
        /\ obs.store_id = inp.store_id
        /\ WindowIntervals(w)[i][1] <= obs.timestamp_utc
        /\ obs.timestamp_utc <= WindowIntervals(w)[i][2]

\* the seconds of the business intervals of window w that contain an observation
RECURSIVE ObservedSeconds(_, _)
ObservedSeconds(w, i) ==
    IF i > Len(WindowIntervals(w)) THEN 0
    ELSE (IF HoldsObservation(w, i)
          THEN total_seconds(WindowIntervals(w)[i][2], WindowIntervals(w)[i][1])
          ELSE 0)
         + ObservedSeconds(w, i + 1)

C21_WindowsMonotone ==
    StoreDone =>
        /\ out.periods[1].uptime <= out.periods[2].uptime
        /\ out.periods[2].uptime <= out.periods[3].uptime
        /\ out.periods[1].downtime <= out.periods[2].downtime
        /\ out.periods[2].downtime <= out.periods[3].downtime

(***************************************************************************)
(* get_current_timestamp and generate_store_metrics (app/core/reporter.py) *)
(***************************************************************************)
\* a faulty variant: the timestamp of the row stored last
get_current_timestamp_LastRow(status_table, utcnow) ==
    IF status_table = <<>> THEN utcnow
    ELSE status_table[Len(status_table)].timestamp_utc

\* the maximum of timestamp_utc over store_status, datetime.utcnow() without data
get_current_timestamp(status_table, utcnow) ==
    IF status_table = <<>> THEN utcnow
    ELSE CHOOSE t \in {status_table[i].timestamp_utc : i \in DOMAIN status_table} :
            \A i \in DOMAIN status_table : status_table[i].timestamp_utc <= t

\* db.session.query(StoreStatus.store_id).distinct().all(): each store id once,
\* in the order of its first row
RECURSIVE distinct_store_ids(_)
distinct_store_ids(status_table) ==
    IF status_table = <<>> THEN <<>>
    ELSE LET before == distinct_store_ids(SubSeq(status_table, 1, Len(status_table) - 1))
             sid == status_table[Len(status_table)].store_id
         IN  IF \E i \in DOMAIN before : before[i] = sid
             THEN before
             ELSE Append(before, sid)

\* the default metrics for failed stores
default_metrics(store_id) ==
    [store_id |-> store_id,
     uptime_last_hour |-> 0, uptime_last_day |-> 0, uptime_last_week |-> 0,
     downtime_last_hour |-> 0, downtime_last_day |-> 0, downtime_last_week |-> 0]

\* a faulty variant: a store whose computation raises is left out of the report
failed_store_rows_Skipped(store_id) == <<>>

\* what the except branch appends to report_data
failed_store_rows(store_id) == <<default_metrics(store_id)>>

\* one pass of the loop body: what is appended for store_id
store_rows(tables, store_id, current_time) ==
    IF calculate_store_metrics_raises(tables, store_id)
    THEN failed_store_rows(store_id)
    ELSE <<calculate_store_metrics(tables, store_id, current_time)>>

(***************************************************************************)
(* The report data computed over bounded datasets                          *)
(***************************************************************************)
MaxStores == 2

\* what one store can have: its observations, its rules and its timezone row
\* ("" for no row; Mars/Olympus is a name pytz does not know)
StoreObservations ==
    {<<[timestamp_utc |-> 291, status |-> "active"]>>,
     <<[timestamp_utc |-> 287, status |-> "inactive"],
       [timestamp_utc |-> 290, status |-> "active"]>>,
     <<[timestamp_utc |-> 91, status |-> "active"]>>}

StoreRules == {<<>>, <<[dayOfWeek |-> 4, start_time_local |-> 22, end_time_local |-> 6]>>}

StoreTimezones == {"", "UTC", "Mars/Olympus"}

StoreData == [observations : StoreObservations, rules : StoreRules,
              timezone_str : StoreTimezones]

\* the rows of the stores of `order`, one store after the other
RECURSIVE StatusTable(_, _)
StatusTable(data, order) ==
    IF order = <<>> THEN <<>>
    ELSE LET s == order[1] IN
         [i \in DOMAIN data[s].observations |->
             [store_id |-> s,
              timestamp_utc |-> data[s].observations[i].timestamp_utc,
              status |-> data[s].observations[i].status]]
         \o StatusTable(data, Tail(order))

RECURSIVE HoursTable(_, _)
HoursTable(data, order) ==
    IF order = <<>> THEN <<>>
    ELSE LET s == order[1] IN
         [i \in DOMAIN data[s].rules |->
             Rule(s, data[s].rules[i].dayOfWeek, data[s].rules[i].start_time_local,
                  data[s].rules[i].end_time_local)]
         \o HoursTable(data, Tail(order))

RECURSIVE TimezoneTable(_, _)
TimezoneTable(data, order) ==
    IF order = <<>> THEN <<>>
    ELSE LET s == order[1] IN
         (IF data[s].timezone_str = "" THEN <<>>
          ELSE <<[store_id |-> s, timezone_str |-> data[s].timezone_str]>>)
         \o TimezoneTable(data, Tail(order))

Ascending(n) == [i \in 1..n |-> i]

Descending(n) == [i \in 1..n |-> n + 1 - i]

Tables(data, order) ==
    [store_status |-> StatusTable(data, order),
     business_hours |-> HoursTable(data, order),
     timezone |-> TimezoneTable(data, order)]

\* datetime.utcnow(), read when store_status is empty
WallClock == {300, 301}

InitReport ==
    /\ InitJobs
    /\ fn = "generate_store_metrics"
    /\ pc = "call"
    /\ \E n \in 0..MaxStores : \E data \in [1..n -> StoreData] :
       \E order \in {Ascending(n), Descending(n)} : \E now \in WallClock :
          inp = [tables |-> Tables(data, order), utcnow |-> now]
    /\ out = <<>>

get_current_timestamp_call ==
    /\ fn = "generate_store_metrics" /\ pc = "call"
    /\ out' = [current_time |-> get_current_timestamp(inp.tables.store_status,
                                                      inp.utcnow),
               store_ids |-> <<>>, i |-> 1, report_data |-> <<>>]
    /\ pc' = "timestamp"
    /\ UNCHANGED <<jobVars, fn, inp>>

\* the store ids are read and the loop is entered
generate_store_metrics_enter ==
    /\ fn = "generate_store_metrics" /\ pc = "timestamp"
    /\ out' = [out EXCEPT !.store_ids = distinct_store_ids(inp.tables.store_status)]
    /\ pc' = "loop"
    /\ UNCHANGED <<jobVars, fn, inp>>

\* one pass of the loop: the store's metrics, or the default metrics when its
\* computation raises
generate_store_metrics_store ==
    /\ fn = "generate_store_metrics" /\ pc = "loop"
    /\ out.i <= Len(out.store_ids)
    /\ out' = [out EXCEPT
                 !.report_data = @ \o store_rows(inp.tables, out.store_ids[out.i],
                                                 out.current_time),
                 !.i = @ + 1]
    /\ UNCHANGED <<jobVars, fn, pc, inp>>

generate_store_metrics_return ==
    /\ fn = "generate_store_metrics" /\ pc = "loop"
    /\ out.i > Len(out.store_ids)
    /\ pc' = "done"
    /\ UNCHANGED <<jobVars, fn, inp, out>>

NextReport ==
    \/ get_current_timestamp_call
    \/ generate_store_metrics_enter
    \/ generate_store_metrics_store
    \/ generate_store_metrics_return

SpecReport == InitReport /\ [][NextReport]_vars

ReportDone == fn = "generate_store_metrics" /\ pc = "done"

\* get_current_timestamp has returned
TimestampResolved == fn = "generate_store_metrics" /\ pc # "call"

\* C17: over a dataset with observations get_current_timestamp returns a
\* timestamp of the dataset that no observation of any store exceeds, and a
\* repeated call returns the same value at whatever wall-clock time it is made;
\* over a dataset without observations it returns the wall-clock time.
C17_CurrentTimestampIsMax ==
    TimestampResolved =>
        LET table == inp.tables.store_status IN
        IF table # <<>>
        THEN /\ \E i \in DOMAIN table : table[i].timestamp_utc = out.current_time
             /\ \A i \in DOMAIN table : table[i].timestamp_utc <= out.current_time
             /\ \A now \in WallClock :
                    get_current_timestamp(table, now) = out.current_time
        ELSE out.current_time = inp.utcnow

\* C17 witness: two stores, and the latest observation is neither the first nor
\* the last row of the dataset.
C17_Witness ==
    /\ ReportDone
    /\ LET table == inp.tables.store_status IN
       /\ Len(table) = 3
       /\ table[1].store_id # table[3].store_id
       /\ table[1].timestamp_utc < out.current_time
       /\ table[3].timestamp_utc < out.current_time

\* the tables without the timezone rows whose name pytz does not know: the data
\* with which no store fails
Repaired(tables) ==
    [tables EXCEPT !.timezone =
        SelectSeq(tables.timezone, LAMBDA r : r.timezone_str \in KnownTimezones)]

\* the index of the first row of store s
FirstRow(s) ==
    CHOOSE i \in DOMAIN inp.tables.store_status :
        /\ inp.tables.store_status[i].store_id = s
        /\ \A k \in 1..(i - 1) : inp.tables.store_status[k].store_id # s

\* ids lists every store of store_status once, in the order of the first rows
IsEnumeration(ids) ==
    /\ {ids[i] : i \in DOMAIN ids}
         = {inp.tables.store_status[i].store_id : i \in DOMAIN inp.tables.store_status}
    /\ \A a, b \in DOMAIN ids : a < b => FirstRow(ids[a]) < FirstRow(ids[b])

\* C4: the report has one record per enumerated store, in enumeration order; a
\* store whose computation raises has its six metrics 0, and every other store
\* has the record it has when no store fails.
C4_FailedStoreIsolated ==
    ReportDone =>
        /\ IsEnumeration(out.store_ids)
        /\ Len(out.report_data) = Len(out.store_ids)
        /\ \A i \in DOMAIN out.store_ids :
              LET s == out.store_ids[i] IN
              /\ out.report_data[i].store_id = s
              /\ IF get_store_timezone(inp.tables.timezone, s) \notin KnownTimezones
                 THEN out.report_data[i] = default_metrics(s)
                 ELSE out.report_data[i]
                        = calculate_store_metrics(Repaired(inp.tables), s,
                                                  out.current_time)

\* C4 witness: the first store enumerated fails, and a store after it has a
\* record that is not all zero.
C4_Witness ==
    /\ ReportDone
    /\ Len(out.store_ids) >= 2
    /\ get_store_timezone(inp.tables.timezone, out.store_ids[1]) \notin KnownTimezones
    /\ \E i \in 2..Len(out.report_data) : out.report_data[i].uptime_last_day > 0

====
